---- MODULE Spec2Model ----
(***************************************************************************)
(* A model of cacao's Objective-C class registry (foundation/class.rs),    *)
(* of the WebView controller bridge (webview/mod.rs) and of the View       *)
(* wrapper (view/view.rs).                                                 *)
(*                                                                         *)
(* The registry is modelled at the granularity of its lock operations:     *)
(* every thread walks through ClassMap::load, ClassMap::store and          *)
(* load_or_register_class one lock acquisition, map access or runtime call *)
(* at a time.  Spec runs one thread (a sequential program), SpecReg one   *)
(* thread that never calls store itself, SpecName one thread under every   *)
(* bundle identifier, SpecConc and SpecRW run NumThreads threads.  The     *)
(* bridges run on the UI thread: SpecWeb is WebView::new, Clone and Drop,  *)
(* SpecView is the View wrapper, SpecBind the binds of both.               *)
(***************************************************************************)
EXTENDS Integers, Sequences, FiniteSets, TLC

\* ------------------------------------------------------------------ bounds
\* Threads of the concurrent specification.
NumThreads == 2
\* Top-level registry calls made in one run.
MaxCalls == 2
\* Calls of WebView::new in one run.
MaxBinds == 2
\* Clones made of the wrapper of one bind.
MaxClones == 1
\* Calls of View::configure in one run.
MaxConfigs == 2
\* Characters in a bundle identifier.
MaxIdLen == 3

\* ------------------------------------------------------------ value domains
\* &'static str class names handed to the registry.
ClassNames == {"A", "B"}
\* Option::None in the superclass_name position of a ClassKey.
NoSuper == "None"
SuperOpts == ClassNames \cup {NoSuper}
\* The null class pointer returned by objc_getClass for an unknown name.
NULL == 0
\* Option<*const Class>.
NoneClass == [some |-> FALSE, ptr |-> NULL]
SomeClass(p) == [some |-> TRUE, ptr |-> p]

\* type ClassKey = (&'static str, Option<&'static str>)
ClassKey(class_name, superclass_name) == <<class_name, superclass_name>>
Keys == ClassNames \X SuperOpts
\* struct ClassEntry { superclass_name, ptr }
ClassEntry(superclass_name, p) == [superclass_name |-> superclass_name, ptr |-> p]
\* A map slot whose value is being written: the key is in place, the value
\* is not.  Only visible to a reader that looks at the map during an insert.
PartialEntry == [superclass_name |-> "<partial>", ptr |-> NULL]
\* HashMap::new()
EmptyMap == [k \in {} |-> PartialEntry]
\* HashMap::insert: at most one entry per key, the new one replaces the old.
MapInsert(m, k, e) == [x \in (DOMAIN m) \cup {k} |-> IF x = k THEN e ELSE m[x]]
\* The entry of a key as an Option, for comparing two maps key by key.
EntryAt(m, k) == IF k \in DOMAIN m THEN <<m[k]>> ELSE <<>>

\* Classes the Objective-C runtime may hold before this code runs: the two
\* plain classes and a class that already carries a synthesized name.
PreClassSeq ==
  << [name |-> "A", ptr |-> 1, super |-> NULL],
     [name |-> "B", ptr |-> 2, super |-> NULL],
     [name |-> "B_A", ptr |-> 3, super |-> 1] >>
PreNames == {PreClassSeq[i].name : i \in 1..Len(PreClassSeq)}
\* Handles a caller passes to ClassMap::store: a runtime class and a pointer
\* the runtime does not know.
StoreHandles == {2, 4}

\* The main bundle's identifier: nil, or a string of characters.
NilBundle == [nil |-> TRUE, id |-> <<>>]
BundleIds == { [nil |-> FALSE, id |-> <<"c", ".", "x", "-", "y">>] }

\* Every bundle identifier of up to MaxIdLen characters over an alphabet with
\* both characters get_bundle_id replaces, the one it replaces them by and
\* a letter.
IdChars == {"c", ".", "-", "_"}
AllBundleIds ==
  { [nil |-> FALSE, id |-> s] : s \in UNION { [1..n -> IdChars] : n \in 0..MaxIdLen } }

Threads == 1..NumThreads
MainThread == CHOOSE t \in Threads : \A u \in Threads : t <= u
NoThread == 0

NoDecl == [name |-> "", ptr |-> NULL, super |-> NULL]

Binds == 1..MaxBinds
\* The controllers a caller owns and passes to View::configure by reference.
ViewControllers == {"c1", "c2"}
\* ViewInner.controller = None
NoInstance == 0

\* A bind that has not happened.
NoBind ==
  [ st |-> "none",      \* none | bound | loaded | returned
    rc |-> 0,           \* strong count of the Rc<RefCell<T>>
    freed |-> FALSE,    \* the Rc's allocation has been freed
    pre |-> 0,          \* history: strong count before the bridge's Rc::clone
    post |-> 0,         \* history: strong count after the last Rc::from_raw
    raw |-> 0,          \* history: calls of Rc::into_raw
    reclaim |-> 0,      \* history: calls of Rc::from_raw on the raw pointer
    made |-> 0,         \* history: wrappers created (WebView::new, then clones)
    live |-> 0,         \* wrappers not yet dropped
    retain |-> 0,       \* retain count of the native view controller
    ivar |-> FALSE,     \* the instance's WEBVIEW_CONTROLLER_PTR holds the raw pointer
    ext |-> FALSE,      \* the caller holds a handle from get_backing_node
    did_load |-> 0,     \* history: calls of the controller's did_load
    hook_ivar |-> FALSE, \* history: did_load ran with the instance allocated and its ivar set
    ub |-> FALSE ]      \* undefined behaviour has happened

\* The UI thread outside any call.  op, seen and native describe the last
\* call made on the View: which it was, the handle get_handle returned, and
\* whether a message was sent to a native object.
UiIdle == [pc |-> "idle", b |-> 0, c |-> "", seen |-> NoInstance,
           op |-> "none", native |-> FALSE]

\* No panic! has been raised.
NoPanic == [kind |-> "none", args |-> <<>>, cause |-> "none"]
\* panic!("Attempted to create subclass for {}, but unable to load superclass
\* of type {}.", subclass_name, superclass_name)
PanicSuperclass(subclass_name, superclass_name) ==
  [kind |-> "superclass", args |-> <<subclass_name, superclass_name>>, cause |-> "missing"]
\* panic!("Subclass of type {}_{} could not be allocated.", subclass_name,
\* superclass_name); cause: the name was taken, or the allocation failed.
PanicSubclass(subclass_name, superclass_name, cause) ==
  [kind |-> "subclass", args |-> <<subclass_name, superclass_name>>, cause |-> cause]

\* A thread outside any registry call.
IdleThread ==
  [ pc |-> "idle", op |-> "none",
    name |-> "", sup |-> NoSuper, class |-> NULL, res |-> NoneClass, hit |-> FALSE,
    superclass_name |-> "", subclass_name |-> "", phase |-> "none",
    superclass |-> NULL, decl |-> NoDecl, cb |-> 0, lres |-> NULL,
    asked |-> 0,        \* history: calls of ClassDecl::new made by this call
    reg |-> 0,          \* history: calls of decl.register() made by this call
    panic |-> NoPanic,  \* the panic this call ended in
    rsnap |-> <<>>,     \* history: the runtime's classes when load_or_register_class was called
    snap |-> EmptyMap ]

\* The record kept of the last completed top-level call.
NoCall == [op |-> "none", name |-> "", sup |-> NoSuper, h |-> NULL, res |-> NoneClass, cb |-> 0]

VARIABLES
  cache,      \* CLASSES.0: the HashMap<ClassKey, ClassEntry> behind the RwLock
  readers,    \* threads holding the RwLock's read guard
  writer,     \* the thread holding the RwLock's write guard, or NoThread
  runtime,    \* the Objective-C runtime's classes, in registration order
  bundle,     \* [NSBundle mainBundle].bundleIdentifier
  th,         \* per thread: position in the code and locals
  last,       \* history: the last completed top-level call
  inserted,   \* history: the <<key, ptr>> pairs of all completed inserts
  adopted,    \* history: per key, the runtime handle load inserted (NULL: none, or replaced by a store)
  calls       \* history: top-level calls started

rvars == <<cache, readers, writer, runtime, bundle, th, last, inserted, adopted, calls>>

\* The bridges run on the UI thread, one call at a time.
VARIABLES
  web,        \* per bind of WebView::new: the controller's Rc, the raw pointer, the wrappers, the native instance
  view,       \* the View wrapper: ViewInner.controller and the RefCell's borrow flag
  vinst,      \* the native view-controller instances ViewInner::configure allocated
  vctl,       \* the controllers handed to View::configure by reference
  ui          \* the UI thread's position inside WebView::new or View::configure

bvars == <<web, view, vinst, vctl, ui>>

vars == <<rvars, bvars>>

\* ---------------------------------------------------------------- runtime
Max(S) == CHOOSE x \in S : \A y \in S : y <= x

\* objc_getClass: the first class registered under the name, or null.
objc_getClass(rt, class_name) ==
  LET idx == {i \in 1..Len(rt) : rt[i].name = class_name}
  IN  IF idx = {} THEN NULL ELSE rt[CHOOSE i \in idx : \A j \in idx : i <= j].ptr

\* The address of a newly allocated class pair: one no class, declaration or
\* stored handle has.
FreshPtr ==
  1 + Max({PreClassSeq[i].ptr : i \in 1..Len(PreClassSeq)} \cup StoreHandles
          \cup {runtime[i].ptr : i \in 1..Len(runtime)}
          \cup {th[t].decl.ptr : t \in Threads})

\* str::replace(from, to) on a string of characters.
Replace(s, from, to) == [i \in 1..Len(s) |-> IF s[i] = from THEN to ELSE s[i]]

RECURSIVE ToStr(_)
ToStr(s) == IF s = <<>> THEN "" ELSE Head(s) \o ToStr(Tail(s))

\* Faulty variant of get_bundle_id: only "." is replaced.
get_bundle_id_dots_only(b) ==
  IF b.nil THEN [some |-> FALSE, id |-> ""]
  ELSE [some |-> TRUE, id |-> ToStr(Replace(b.id, ".", "_"))]

\* get_bundle_id: None for a nil identifier, else the identifier with every
\* "." and every "-" replaced by "_".
get_bundle_id(b) ==
  IF b.nil THEN [some |-> FALSE, id |-> ""]
  ELSE [some |-> TRUE, id |-> ToStr(Replace(Replace(b.id, ".", "_"), "-", "_"))]

\* The runtime name load_or_register_class gives the new class.
objc_subclass_name(subclass_name, superclass_name, b) ==
  LET bid == get_bundle_id(b)
  IN  IF bid.some
      THEN subclass_name \o "_" \o superclass_name \o "_" \o bid.id
      ELSE subclass_name \o "_" \o superclass_name

\* ---------------------------------------------------------------- RwLock
\* Faulty variant of CanRead: a lock that admits one holder at a time (a Mutex).
CanReadExclusive == writer = NoThread /\ readers = {}

\* RwLock::read succeeds when no writer holds the lock.
CanRead == writer = NoThread
\* RwLock::write succeeds when nobody holds the lock.
CanWrite == writer = NoThread /\ readers = {}

\* Faulty variant of CacheGet: the lookup compares class names only.
CacheGetByName(m, class_name, superclass_name) ==
  LET ks == {k \in DOMAIN m : k[1] = class_name}
  IN  IF ks = {} THEN <<>> ELSE <<m[CHOOSE k \in ks : TRUE]>>

\* (*reader).get(&(class_name, superclass_name))
CacheGet(m, class_name, superclass_name) ==
  IF ClassKey(class_name, superclass_name) \in DOMAIN m
  THEN <<m[ClassKey(class_name, superclass_name)]>>
  ELSE <<>>

\* Faulty variant of LoadInsertKey: the superclass name is dropped from the key.
LoadInsertKeyNoSuper(class_name, superclass_name) == ClassKey(class_name, NoSuper)

\* The key ClassMap::load inserts the runtime's class under.
LoadInsertKey(class_name, superclass_name) == ClassKey(class_name, superclass_name)

\* The key ClassMap::store inserts under.
StoreInsertKey(class_name, superclass_name) == ClassKey(class_name, superclass_name)

Key(t) == ClassKey(th[t].name, th[t].sup)

\* ---------------------------------------------------------- ClassMap::load
\* A top-level call of CLASSES.load(class_name, superclass_name).
CallLoad(t, class_name, superclass_name) ==
  /\ th[t].pc = "idle"
  /\ calls < MaxCalls
  /\ calls' = calls + 1
  /\ th' = [th EXCEPT ![t] = [IdleThread EXCEPT !.pc = "load_read", !.op = "load",
                                 !.name = class_name, !.sup = superclass_name,
                                 !.snap = cache]]
  /\ UNCHANGED <<bvars, cache, readers, writer, runtime, bundle, last, inserted, adopted>>

\* let reader = self.0.read().unwrap();
LoadRead(t) ==
  /\ th[t].pc = "load_read"
  /\ CanRead
  /\ readers' = readers \cup {t}
  /\ th' = [th EXCEPT ![t].pc = "load_get"]
  /\ UNCHANGED <<bvars, cache, writer, runtime, bundle, last, inserted, adopted, calls>>

\* Faulty variant of LoadGet: the read guard lives on after a miss.
LoadGetKeepsGuard(t) ==
  /\ th[t].pc = "load_get"
  /\ LET found == IF Key(t) \in DOMAIN cache THEN <<cache[Key(t)]>> ELSE <<>>
     IN  IF found # <<>>
         THEN /\ th' = [th EXCEPT ![t].pc = "load_ret", ![t].hit = TRUE,
                                  ![t].res = SomeClass(found[1].ptr)]
              /\ readers' = readers \ {t}
         ELSE /\ th' = [th EXCEPT ![t].pc = "load_objc"]
              /\ readers' = readers
  /\ UNCHANGED <<bvars, cache, writer, runtime, bundle, last, inserted, adopted, calls>>

\* The lookup under the read guard; the guard is dropped at the end of the
\* block, on the hit path by the return.
LoadGet(t) ==
  /\ th[t].pc = "load_get"
  /\ LET found == CacheGet(cache, th[t].name, th[t].sup)
     IN  IF found # <<>>
         THEN th' = [th EXCEPT ![t].pc = "load_ret", ![t].hit = TRUE,
                               ![t].res = SomeClass(found[1].ptr)]
         ELSE th' = [th EXCEPT ![t].pc = "load_objc"]
  /\ readers' = readers \ {t}
  /\ UNCHANGED <<bvars, cache, writer, runtime, bundle, last, inserted, adopted, calls>>

\* Faulty variant of LoadObjc: an unknown class is cached as a null handle.
LoadObjcCachesAbsence(t) ==
  /\ th[t].pc = "load_objc"
  /\ th' = [th EXCEPT ![t].pc = "load_write",
                       ![t].class = objc_getClass(runtime, th[t].name)]
  /\ UNCHANGED <<bvars, cache, readers, writer, runtime, bundle, last, inserted, adopted, calls>>

\* objc_getClass and the null check.
LoadObjc(t) ==
  /\ th[t].pc = "load_objc"
  /\ LET class == objc_getClass(runtime, th[t].name)
     IN  IF class = NULL
         THEN th' = [th EXCEPT ![t].pc = "load_ret", ![t].res = NoneClass]
         ELSE th' = [th EXCEPT ![t].pc = "load_write", ![t].class = class]
  /\ UNCHANGED <<bvars, cache, readers, writer, runtime, bundle, last, inserted, adopted, calls>>

\* let mut writer = self.0.write().unwrap();
LoadWrite(t) ==
  /\ th[t].pc = "load_write"
  /\ CanWrite
  /\ writer' = t
  /\ th' = [th EXCEPT ![t].pc = "load_ins"]
  /\ UNCHANGED <<bvars, cache, readers, runtime, bundle, last, inserted, adopted, calls>>

\* writer.insert(..) under the write guard: the slot is claimed ...
LoadInsertBegin(t) ==
  /\ th[t].pc = "load_ins"
  /\ writer = t
  /\ cache' = MapInsert(cache, LoadInsertKey(th[t].name, th[t].sup), PartialEntry)
  /\ th' = [th EXCEPT ![t].pc = "load_ins2"]
  /\ UNCHANGED <<bvars, readers, writer, runtime, bundle, last, inserted, adopted, calls>>

\* ... and filled; the guard is dropped at the end of the block.
LoadInsertEnd(t) ==
  /\ th[t].pc = "load_ins2"
  /\ writer = t
  /\ cache' = MapInsert(cache, LoadInsertKey(th[t].name, th[t].sup),
                        ClassEntry(th[t].sup, th[t].class))
  /\ inserted' = inserted \cup {<<LoadInsertKey(th[t].name, th[t].sup), th[t].class>>}
  /\ adopted' = [adopted EXCEPT ![LoadInsertKey(th[t].name, th[t].sup)] = th[t].class]
  /\ writer' = NoThread
  /\ th' = [th EXCEPT ![t].pc = "load_ret", ![t].res = SomeClass(th[t].class)]
  /\ UNCHANGED <<bvars, readers, runtime, bundle, last, calls>>

\* ClassMap::load returns to a top-level caller.
LoadReturn(t) ==
  /\ th[t].pc = "load_ret"
  /\ th[t].op = "load"
  /\ last' = [NoCall EXCEPT !.op = "load", !.name = th[t].name, !.sup = th[t].sup,
                            !.res = th[t].res]
  /\ th' = [th EXCEPT ![t] = IdleThread]
  /\ UNCHANGED <<bvars, cache, readers, writer, runtime, bundle, inserted, adopted, calls>>

\* --------------------------------------------------------- ClassMap::store
\* A top-level call of CLASSES.store(class_name, superclass_name, class).
CallStore(t, class_name, superclass_name, class) ==
  /\ th[t].pc = "idle"
  /\ calls < MaxCalls
  /\ calls' = calls + 1
  /\ th' = [th EXCEPT ![t] = [IdleThread EXCEPT !.pc = "store_write", !.op = "store",
                                 !.name = class_name, !.sup = superclass_name,
                                 !.class = class, !.snap = cache]]
  /\ UNCHANGED <<bvars, cache, readers, writer, runtime, bundle, last, inserted, adopted>>

\* let mut writer = self.0.write().unwrap();
StoreWrite(t) ==
  /\ th[t].pc = "store_write"
  /\ CanWrite
  /\ writer' = t
  /\ th' = [th EXCEPT ![t].pc = "store_ins"]
  /\ UNCHANGED <<bvars, cache, readers, runtime, bundle, last, inserted, adopted, calls>>

\* writer.insert(..) under the write guard: the slot is claimed ...
StoreInsertBegin(t) ==
  /\ th[t].pc = "store_ins"
  /\ writer = t
  /\ cache' = MapInsert(cache, StoreInsertKey(th[t].name, th[t].sup), PartialEntry)
  /\ adopted' = [adopted EXCEPT ![StoreInsertKey(th[t].name, th[t].sup)] = NULL]
  /\ th' = [th EXCEPT ![t].pc = "store_ins2"]
  /\ UNCHANGED <<bvars, readers, writer, runtime, bundle, last, inserted, calls>>

\* Faulty variant of StoreInsertEnd: an existing entry is kept (entry().or_insert()).
StoreInsertEndIfAbsent(t) ==
  /\ th[t].pc = "store_ins2"
  /\ writer = t
  /\ cache' = IF Key(t) \in DOMAIN th[t].snap
              THEN MapInsert(cache, Key(t), th[t].snap[Key(t)])
              ELSE MapInsert(cache, Key(t), ClassEntry(th[t].sup, th[t].class))
  /\ inserted' = inserted \cup {<<Key(t), th[t].class>>}
  /\ writer' = NoThread
  /\ th' = [th EXCEPT ![t].pc = "store_ret"]
  /\ UNCHANGED <<bvars, readers, runtime, bundle, last, adopted, calls>>

\* ... and filled; the guard is dropped when store returns.
StoreInsertEnd(t) ==
  /\ th[t].pc = "store_ins2"
  /\ writer = t
  /\ cache' = MapInsert(cache, StoreInsertKey(th[t].name, th[t].sup),
                        ClassEntry(th[t].sup, th[t].class))
  /\ inserted' = inserted \cup {<<StoreInsertKey(th[t].name, th[t].sup), th[t].class>>}
  /\ writer' = NoThread
  /\ th' = [th EXCEPT ![t].pc = "store_ret"]
  /\ UNCHANGED <<bvars, readers, runtime, bundle, last, adopted, calls>>

\* ClassMap::store returns to a top-level caller.
StoreReturn(t) ==
  /\ th[t].pc = "store_ret"
  /\ th[t].op = "store"
  /\ last' = [NoCall EXCEPT !.op = "store", !.name = th[t].name, !.sup = th[t].sup,
                            !.h = th[t].class]
  /\ th' = [th EXCEPT ![t] = IdleThread]
  /\ UNCHANGED <<bvars, cache, readers, writer, runtime, bundle, inserted, adopted, calls>>

\* ------------------------------------------------- load_or_register_class
\* A call of load_or_register_class(superclass_name, subclass_name, config);
\* it starts with CLASSES.load(subclass_name, Some(superclass_name)).
CallLor(t, superclass_name, subclass_name) ==
  /\ th[t].pc = "idle"
  /\ calls < MaxCalls
  /\ calls' = calls + 1
  /\ th' = [th EXCEPT ![t] = [IdleThread EXCEPT !.pc = "load_read", !.op = "lor",
                                 !.superclass_name = superclass_name,
                                 !.subclass_name = subclass_name,
                                 !.phase = "sub",
                                 !.name = subclass_name, !.sup = superclass_name,
                                 !.snap = cache, !.rsnap = runtime]]
  /\ UNCHANGED <<bvars, cache, readers, writer, runtime, bundle, last, inserted, adopted>>

\* if let Some(subclass) = CLASSES.load(..) { return subclass; }
\* otherwise go on to CLASSES.load(superclass_name, None).
LorAfterSub(t) ==
  /\ th[t].pc = "load_ret"
  /\ th[t].op = "lor"
  /\ th[t].phase = "sub"
  /\ IF th[t].res.some
     THEN th' = [th EXCEPT ![t].pc = "lor_ret", ![t].lres = th[t].res.ptr]
     ELSE th' = [th EXCEPT ![t].pc = "load_read", ![t].phase = "super",
                           ![t].name = th[t].superclass_name, ![t].sup = NoSuper,
                           ![t].hit = FALSE, ![t].class = NULL]
  /\ UNCHANGED <<bvars, cache, readers, writer, runtime, bundle, last, inserted, adopted, calls>>

\* Faulty variant of LorAfterSuper: a missing superclass is not noticed, the
\* declaration is requested with a null superclass.
LorAfterSuperNoPanic(t) ==
  /\ th[t].pc = "load_ret"
  /\ th[t].op = "lor"
  /\ th[t].phase = "super"
  /\ th' = [th EXCEPT ![t].pc = "lor_decl", ![t].superclass = th[t].res.ptr]
  /\ UNCHANGED <<bvars, cache, readers, writer, runtime, bundle, last, inserted, adopted, calls>>

\* if let Some(superclass) = CLASSES.load(superclass_name, None) { .. }
\* panic!("Attempted to create subclass for {}, but unable to load superclass ..")
LorAfterSuper(t) ==
  /\ th[t].pc = "load_ret"
  /\ th[t].op = "lor"
  /\ th[t].phase = "super"
  /\ IF th[t].res.some
     THEN th' = [th EXCEPT ![t].pc = "lor_decl", ![t].superclass = th[t].res.ptr]
     ELSE th' = [th EXCEPT ![t].pc = "panic_superclass",
                           ![t].panic = PanicSuperclass(th[t].subclass_name,
                                                        th[t].superclass_name)]
  /\ UNCHANGED <<bvars, cache, readers, writer, runtime, bundle, last, inserted, adopted, calls>>

\* Faulty variant of LorDecl: a declaration is handed out although the name
\* is taken.
LorDeclIgnoresCollision(t) ==
  /\ th[t].pc = "lor_decl"
  /\ LET n == objc_subclass_name(th[t].subclass_name, th[t].superclass_name, bundle)
     IN  th' = [th EXCEPT ![t].pc = "lor_config",
                          ![t].asked = th[t].asked + 1,
                          ![t].decl = [name |-> n, ptr |-> FreshPtr,
                                       super |-> th[t].superclass]]
  /\ UNCHANGED <<bvars, cache, readers, writer, runtime, bundle, last, inserted, adopted, calls>>

\* ClassDecl::new(&objc_subclass_name, superclass): None when the runtime
\* holds a class of that name, or cannot allocate the class pair.
LorDecl(t) ==
  /\ th[t].pc = "lor_decl"
  /\ LET n == objc_subclass_name(th[t].subclass_name, th[t].superclass_name, bundle)
     IN  \/ /\ objc_getClass(runtime, n) = NULL
            /\ th' = [th EXCEPT ![t].pc = "lor_config",
                                 ![t].asked = th[t].asked + 1,
                                 ![t].decl = [name |-> n, ptr |-> FreshPtr,
                                              super |-> th[t].superclass]]
         \/ th' = [th EXCEPT ![t].pc = "panic_subclass",
                              ![t].asked = th[t].asked + 1,
                              ![t].panic = PanicSubclass(th[t].subclass_name,
                                             th[t].superclass_name,
                                             IF objc_getClass(runtime, n) = NULL
                                             THEN "alloc" ELSE "taken")]
  /\ UNCHANGED <<bvars, cache, readers, writer, runtime, bundle, last, inserted, adopted, calls>>

\* config(&mut decl);
LorConfig(t) ==
  /\ th[t].pc = "lor_config"
  /\ th' = [th EXCEPT ![t].pc = "lor_register", ![t].cb = th[t].cb + 1]
  /\ UNCHANGED <<bvars, cache, readers, writer, runtime, bundle, last, inserted, adopted, calls>>

\* Faulty variant of LorRegister: the superclass is stored in place of the new class.
LorRegisterStoresSuper(t) ==
  /\ th[t].pc = "lor_register"
  /\ runtime' = Append(runtime, th[t].decl)
  /\ th' = [th EXCEPT ![t].pc = "store_write", ![t].phase = "store",
                       ![t].reg = th[t].reg + 1,
                       ![t].name = th[t].subclass_name,
                       ![t].sup = th[t].superclass_name,
                       ![t].class = th[t].superclass]
  /\ UNCHANGED <<bvars, cache, readers, writer, bundle, last, inserted, adopted, calls>>

\* Faulty variant of LorRegister: the handle is stored without the
\* declaration having been registered.
LorRegisterSkipsRegister(t) ==
  /\ th[t].pc = "lor_register"
  /\ th' = [th EXCEPT ![t].pc = "store_write", ![t].phase = "store",
                       ![t].name = th[t].subclass_name,
                       ![t].sup = th[t].superclass_name,
                       ![t].class = th[t].decl.ptr]
  /\ UNCHANGED <<bvars, cache, readers, writer, runtime, bundle, last, inserted, adopted, calls>>

\* let class = decl.register(); then CLASSES.store(subclass_name,
\* Some(superclass_name), class) begins.
LorRegister(t) ==
  /\ th[t].pc = "lor_register"
  /\ runtime' = Append(runtime, th[t].decl)
  /\ th' = [th EXCEPT ![t].pc = "store_write", ![t].phase = "store",
                       ![t].reg = th[t].reg + 1,
                       ![t].name = th[t].subclass_name,
                       ![t].sup = th[t].superclass_name,
                       ![t].class = th[t].decl.ptr]
  /\ UNCHANGED <<bvars, cache, readers, writer, bundle, last, inserted, adopted, calls>>

\* return class;
LorAfterStore(t) ==
  /\ th[t].pc = "store_ret"
  /\ th[t].op = "lor"
  /\ th' = [th EXCEPT ![t].pc = "lor_ret", ![t].lres = th[t].decl.ptr]
  /\ UNCHANGED <<bvars, cache, readers, writer, runtime, bundle, last, inserted, adopted, calls>>

\* load_or_register_class returns to its caller.
LorReturn(t) ==
  /\ th[t].pc = "lor_ret"
  /\ last' = [NoCall EXCEPT !.op = "lor", !.name = th[t].subclass_name,
                            !.sup = th[t].superclass_name,
                            !.res = SomeClass(th[t].lres), !.cb = th[t].cb]
  /\ th' = [th EXCEPT ![t] = IdleThread]
  /\ UNCHANGED <<bvars, cache, readers, writer, runtime, bundle, inserted, adopted, calls>>

\* ------------------------------------------------------------ the program
\* The steps inside a call.
Step(t) ==
  \/ LoadRead(t) \/ LoadGet(t) \/ LoadObjc(t) \/ LoadWrite(t)
  \/ LoadInsertBegin(t) \/ LoadInsertEnd(t) \/ LoadReturn(t)
  \/ StoreWrite(t) \/ StoreInsertBegin(t) \/ StoreInsertEnd(t) \/ StoreReturn(t)
  \/ LorAfterSub(t) \/ LorAfterSuper(t) \/ LorDecl(t) \/ LorConfig(t)
  \/ LorRegister(t) \/ LorAfterStore(t) \/ LorReturn(t)

\* A caller starts any registry call.
Call(t) ==
  \/ \E n \in ClassNames, s \in SuperOpts : CallLoad(t, n, s)
  \/ \E n \in ClassNames, s \in SuperOpts, h \in StoreHandles : CallStore(t, n, s, h)
  \/ \E s \in ClassNames, n \in ClassNames : CallLor(t, s, n)

InitRuntimes ==
  { SelectSeq(PreClassSeq, LAMBDA r : r.name \in S) : S \in SUBSET PreNames }

\* No bind has happened, the View is View::default().
BridgeInit ==
  /\ web = [b \in Binds |-> NoBind]
  /\ view = [controller |-> NoInstance, borrow |-> 0]
  /\ vinst = <<>>
  /\ vctl = [c \in ViewControllers |-> [alive |-> TRUE, did_load |-> 0]]
  /\ ui = UiIdle

Init ==
  /\ BridgeInit
  /\ cache = EmptyMap
  /\ readers = {}
  /\ writer = NoThread
  /\ runtime \in InitRuntimes
  /\ bundle \in BundleIds \cup {NilBundle}
  /\ th = [t \in Threads |-> IdleThread]
  /\ last = NoCall
  /\ inserted = {}
  /\ adopted = [k \in Keys |-> NULL]
  /\ calls = 0

\* One thread: a sequential program.
Next == Call(MainThread) \/ Step(MainThread)

Spec == Init /\ [][Next]_vars

\* A sequential program that calls ClassMap::load and
\* load_or_register_class and never ClassMap::store itself.
RegStep(t) ==
  \/ LoadRead(t) \/ LoadGet(t) \/ LoadObjc(t) \/ LoadWrite(t)
  \/ LoadInsertBegin(t) \/ LoadInsertEnd(t) \/ LoadReturn(t)
  \/ StoreWrite(t) \/ StoreInsertBegin(t) \/ StoreInsertEnd(t)
  \/ LorAfterSub(t) \/ LorAfterSuper(t) \/ LorDecl(t) \/ LorConfig(t)
  \/ LorRegister(t) \/ LorAfterStore(t) \/ LorReturn(t)

NextReg ==
  \/ \E n \in ClassNames, s \in SuperOpts : CallLoad(MainThread, n, s)
  \/ \E s \in ClassNames, n \in ClassNames : CallLor(MainThread, s, n)
  \/ RegStep(MainThread)

SpecReg == Init /\ [][NextReg]_vars

\* load_or_register_class under every bundle identifier, in a runtime that
\* holds one of the two classes.
NameStep(t) ==
  \/ LoadRead(t) \/ LoadGet(t) \/ LoadObjc(t) \/ LoadWrite(t)
  \/ LoadInsertBegin(t) \/ LoadInsertEnd(t)
  \/ StoreWrite(t) \/ StoreInsertBegin(t) \/ StoreInsertEnd(t)
  \/ LorAfterSub(t) \/ LorAfterSuper(t) \/ LorDecl(t) \/ LorConfig(t)
  \/ LorRegister(t) \/ LorAfterStore(t) \/ LorReturn(t)

NextName ==
  \/ \E s \in ClassNames, n \in ClassNames : s # n /\ CallLor(MainThread, s, n)
  \/ NameStep(MainThread)

InitName ==
  /\ BridgeInit
  /\ cache = EmptyMap
  /\ readers = {}
  /\ writer = NoThread
  /\ runtime \in {SubSeq(PreClassSeq, 1, 1), SubSeq(PreClassSeq, 2, 2)}
  /\ bundle \in AllBundleIds \cup {NilBundle}
  /\ th = [t \in Threads |-> IdleThread]
  /\ last = NoCall
  /\ inserted = {}
  /\ adopted = [k \in Keys |-> NULL]
  /\ calls = 0

SpecName == InitName /\ [][NextName]_vars

\* Several threads share CLASSES; their calls work on the two keys of one
\* class name.
ConcCall(t) ==
  \/ \E s \in {NoSuper, "A"} : CallLoad(t, "B", s)
  \/ CallStore(t, "B", "A", 4)
  \/ CallLor(t, "A", "B")

NextConc == \E t \in Threads : ConcCall(t) \/ Step(t)

\* The state a completed load("B", None) leaves behind when the runtime
\* holds class B.
AfterLoadB ==
  /\ runtime = SubSeq(PreClassSeq, 1, 2)
  /\ cache = MapInsert(EmptyMap, ClassKey("B", NoSuper), ClassEntry(NoSuper, 2))
  /\ inserted = {<<ClassKey("B", NoSuper), 2>>}
  /\ adopted = [k \in Keys |-> IF k = ClassKey("B", NoSuper) THEN 2 ELSE NULL]
  /\ last = [NoCall EXCEPT !.op = "load", !.name = "B", !.res = SomeClass(2)]

\* The concurrent runs start without a bundle identifier and with class A in
\* the runtime; class B is missing, or there and not yet looked up, or
\* there and cached by an earlier load("B", None).
InitConc ==
  /\ BridgeInit
  /\ readers = {}
  /\ writer = NoThread
  /\ bundle = NilBundle
  /\ th = [t \in Threads |-> IdleThread]
  /\ calls = 0
  /\ \/ /\ runtime \in {SubSeq(PreClassSeq, 1, 1), SubSeq(PreClassSeq, 1, 2)}
        /\ cache = EmptyMap
        /\ inserted = {}
        /\ adopted = [k \in Keys |-> NULL]
        /\ last = NoCall
     \/ AfterLoadB

SpecConc == InitConc /\ [][NextConc]_vars

\* Threads that call only ClassMap::load and ClassMap::store.
RWCall(t) ==
  \/ \E s \in {NoSuper, "A"} : CallLoad(t, "B", s)
  \/ CallStore(t, "B", NoSuper, 4)

RWStep(t) ==
  \/ LoadRead(t) \/ LoadGet(t) \/ LoadObjc(t) \/ LoadWrite(t)
  \/ LoadInsertBegin(t) \/ LoadInsertEnd(t) \/ LoadReturn(t)
  \/ StoreWrite(t) \/ StoreInsertBegin(t) \/ StoreInsertEnd(t) \/ StoreReturn(t)

NextRW == \E t \in Threads : RWCall(t) \/ RWStep(t)

\* A thread inside a call keeps running, and the lock grants a request that
\* stays grantable.  (The calls of a run are finitely many, so a request that
\* can be granted at all stays grantable in the end.)
Fairness == \A t \in Threads : WF_vars(RWStep(t))

SpecRW == InitConc /\ [][NextRW]_vars /\ Fairness

\* ------------------------------------------------------- WebView bridge
\* Rc::new: one strong reference.
RcNew == 1
\* Rc::clone: one more strong reference.
RcClone(n) == n + 1
\* Rc::into_raw: the reference lives on as a raw pointer, the count stays.
RcIntoRaw(n) == n
\* Dropping an Rc, among them the one Rc::from_raw rebuilds: one reference less.
RcDrop(n) == n - 1

\* WebView::new up to the construction of the handle: the controller goes
\* into an Rc, a clone of it becomes the raw pointer, a native view
\* controller is allocated and its ivar set to the raw pointer.
WebNewBind(b) ==
  /\ ui.pc = "idle"
  /\ web[b].st = "none"
  /\ \A a \in Binds : a < b => web[a].st # "none"
  /\ web' = [web EXCEPT ![b] = [NoBind EXCEPT !.st = "bound",
                                   !.pre = RcNew,
                                   !.rc = RcIntoRaw(RcClone(RcNew)),
                                   !.raw = 1,
                                   !.retain = 1,
                                   !.ivar = TRUE]]
  /\ ui' = [UiIdle EXCEPT !.pc = "web_did_load", !.b = b]
  /\ UNCHANGED <<rvars, view, vinst, vctl>>

\* Faulty variant of WebDidLoad: the hook is not invoked.
WebDidLoadSkipped(b) ==
  /\ ui.pc = "web_did_load"
  /\ ui.b = b
  /\ web' = [web EXCEPT ![b].st = "loaded"]
  /\ ui' = [ui EXCEPT !.pc = "web_return"]
  /\ UNCHANGED <<rvars, view, vinst, vctl>>

\* (*vc).did_load(handle.clone()); the clone of the handle is dropped when
\* the hook returns.
WebDidLoad(b) ==
  /\ ui.pc = "web_did_load"
  /\ ui.b = b
  /\ web' = [web EXCEPT ![b].st = "loaded", ![b].did_load = web[b].did_load + 1,
                        ![b].hook_ivar = (web[b].retain > 0 /\ web[b].ivar)]
  /\ ui' = [ui EXCEPT !.pc = "web_return"]
  /\ UNCHANGED <<rvars, view, vinst, vctl>>

\* WebView { internal_callback_ptr, objc_controller, controller } is
\* returned to the caller.
WebNewReturn(b) ==
  /\ ui.pc = "web_return"
  /\ ui.b = b
  /\ web' = [web EXCEPT ![b].st = "returned", ![b].made = 1, ![b].live = 1]
  /\ ui' = UiIdle
  /\ UNCHANGED <<rvars, view, vinst, vctl>>

\* #[derive(Clone)]: the clone copies internal_callback_ptr and clones the
\* handle and the Rc.
WebClone(b) ==
  /\ ui.pc = "idle"
  /\ web[b].live >= 1
  /\ ~ web[b].ub
  /\ web[b].made < 1 + MaxClones
  /\ web' = [web EXCEPT ![b].rc = RcClone(web[b].rc),
                        ![b].retain = web[b].retain + 1,
                        ![b].made = web[b].made + 1,
                        ![b].live = web[b].live + 1]
  /\ UNCHANGED <<rvars, view, vinst, vctl, ui>>

\* Faulty variant of WebDrop: the raw pointer is not reclaimed.
WebDropNoReclaim(b) ==
  /\ ui.pc = "idle"
  /\ web[b].live >= 1
  /\ ~ web[b].ub
  /\ web' = [web EXCEPT ![b].rc = RcDrop(web[b].rc),
                        ![b].freed = (RcDrop(web[b].rc) = 0),
                        ![b].post = web[b].rc,
                        ![b].retain = web[b].retain - 1,
                        ![b].live = web[b].live - 1]
  /\ UNCHANGED <<rvars, view, vinst, vctl, ui>>

\* Drop: Rc::from_raw(self.internal_callback_ptr) is dropped, then the
\* fields objc_controller and controller are.  Touching the Rc after its
\* count has reached zero is undefined: the count that is left is any value.
WebDrop(b) ==
  /\ ui.pc = "idle"
  /\ web[b].live >= 1
  /\ ~ web[b].ub
  /\ LET r1 == RcDrop(web[b].rc)
         r2 == RcDrop(r1)
     IN  IF web[b].freed \/ r1 = 0
         THEN \E garbage \in {0, 1} :
                web' = [web EXCEPT ![b].rc = garbage,
                                   ![b].freed = TRUE,
                                   ![b].ub = TRUE,
                                   ![b].post = r1,
                                   ![b].reclaim = web[b].reclaim + 1,
                                   ![b].retain = web[b].retain - 1,
                                   ![b].live = web[b].live - 1]
         ELSE web' = [web EXCEPT ![b].rc = r2,
                                 ![b].freed = (r2 = 0),
                                 ![b].post = r1,
                                 ![b].reclaim = web[b].reclaim + 1,
                                 ![b].retain = web[b].retain - 1,
                                 ![b].live = web[b].live - 1]
  /\ UNCHANGED <<rvars, view, vinst, vctl, ui>>

\* Layout::get_backing_node: the caller gets a retained handle of the native
\* view controller.
WebGetBackingNode(b) ==
  /\ ui.pc = "idle"
  /\ web[b].live >= 1
  /\ ~ web[b].ext
  /\ web' = [web EXCEPT ![b].ext = TRUE, ![b].retain = web[b].retain + 1]
  /\ UNCHANGED <<rvars, view, vinst, vctl, ui>>

\* The caller drops the handle get_backing_node gave it.
WebReleaseNode(b) ==
  /\ ui.pc = "idle"
  /\ web[b].ext
  /\ web' = [web EXCEPT ![b].ext = FALSE, ![b].retain = web[b].retain - 1]
  /\ UNCHANGED <<rvars, view, vinst, vctl, ui>>

WebNext ==
  \E b \in Binds :
    \/ WebNewBind(b) \/ WebDidLoad(b) \/ WebNewReturn(b)
    \/ WebClone(b) \/ WebDrop(b)
    \/ WebGetBackingNode(b) \/ WebReleaseNode(b)

\* ---------------------------------------------------------- View bridge
\* ShareId::clone / drop on the handle of instance i (NoInstance: None).
Retain(insts, i) ==
  IF i = NoInstance THEN insts ELSE [insts EXCEPT ![i].retain = insts[i].retain + 1]
Release(insts, i) ==
  IF i = NoInstance THEN insts ELSE [insts EXCEPT ![i].retain = insts[i].retain - 1]

\* Faulty variant of NewViewInstance: the ivar of the view is left unset.
NewViewInstanceOneIvar(c) ==
  [ vc_ivar |-> c, view_ivar |-> "null", strong |-> 0, retain |-> 1,
    did_load |-> 0, ext |-> FALSE, dragged |-> FALSE ]

\* The instance ViewInner::configure allocates: both ivars hold the address
\* of the borrowed controller; no strong reference is made for them.
NewViewInstance(c) ==
  [ vc_ivar |-> c,        \* VIEW_CONTROLLER_PTR of the view controller
    view_ivar |-> c,      \* VIEW_CONTROLLER_PTR of its view
    strong |-> 0,         \* strong references created for the stored pointer
    retain |-> 1,         \* retain count: the handle in ViewInner.controller
    did_load |-> 0,       \* history: calls of did_load made for this instance
    ext |-> FALSE,        \* the caller holds a handle from get_handle
    dragged |-> FALSE ]   \* registerForDraggedTypes: was sent to its view

\* Faulty variant of ViewConfigure: the RefMut lives until configure returns.
ViewConfigureHoldsBorrow(c) ==
  /\ ui.pc = "idle"
  /\ vctl[c].alive
  /\ Len(vinst) < MaxConfigs
  /\ view.borrow = 0
  /\ vinst' = Append(Release(vinst, view.controller), NewViewInstance(c))
  /\ view' = [controller |-> Len(vinst) + 1, borrow |-> -1]
  /\ ui' = [UiIdle EXCEPT !.pc = "view_did_load", !.c = c]
  /\ UNCHANGED <<rvars, web, vctl>>

\* View::configure up to the end of the borrow_mut block: ViewInner::configure
\* allocates the instance, sets the ivars and replaces the handle.
ViewConfigure(c) ==
  /\ ui.pc = "idle"
  /\ vctl[c].alive
  /\ Len(vinst) < MaxConfigs
  /\ view.borrow = 0
  /\ vinst' = Append(Release(vinst, view.controller), NewViewInstance(c))
  /\ view' = [controller |-> Len(vinst) + 1, borrow |-> 0]
  /\ ui' = [UiIdle EXCEPT !.pc = "view_did_load", !.c = c]
  /\ UNCHANGED <<rvars, web, vctl>>

\* controller.did_load(); the hook may call back into the same View.
ViewDidLoad(c) ==
  /\ ui.pc = "view_did_load"
  /\ ui.c = c
  /\ vctl' = [vctl EXCEPT ![c].did_load = vctl[c].did_load + 1]
  /\ \E reenter \in {"none", "get_handle", "register"} :
       LET counted == [vinst EXCEPT ![view.controller].did_load =
                                      vinst[view.controller].did_load + 1]
       IN  IF reenter = "none"
           THEN /\ ui' = [ui EXCEPT !.pc = "view_return"]
                /\ vinst' = counted
           ELSE IF view.borrow < 0
           THEN /\ ui' = [ui EXCEPT !.pc = "panic_borrow"]
                /\ vinst' = counted
           ELSE IF reenter = "get_handle"
           THEN /\ ui' = [ui EXCEPT !.pc = "view_return", !.seen = view.controller,
                                    !.op = "get_handle"]
                /\ vinst' = counted
           ELSE /\ ui' = [ui EXCEPT !.pc = "view_return", !.op = "register",
                                    !.native = (view.controller # NoInstance)]
                /\ vinst' = [counted EXCEPT ![view.controller].dragged = TRUE]
  /\ UNCHANGED <<rvars, web, view>>

\* View::configure returns.
ViewConfigureReturn(c) ==
  /\ ui.pc = "view_return"
  /\ ui.c = c
  /\ ui' = UiIdle
  /\ UNCHANGED <<rvars, web, view, vinst, vctl>>

\* View::get_handle: a clone of ViewInner.controller; the caller keeps it.
ViewGetHandle ==
  /\ ui.pc = "idle"
  /\ view.borrow >= 0
  /\ view.controller # NoInstance => ~ vinst[view.controller].ext
  /\ vinst' = IF view.controller = NoInstance THEN vinst
              ELSE [Retain(vinst, view.controller) EXCEPT ![view.controller].ext = TRUE]
  /\ ui' = [UiIdle EXCEPT !.seen = view.controller, !.op = "get_handle"]
  /\ UNCHANGED <<rvars, web, view, vctl>>

\* The caller drops a handle get_handle gave it.
ViewReleaseHandle(i) ==
  /\ ui.pc = "idle"
  /\ i \in 1..Len(vinst)
  /\ vinst[i].ext
  /\ vinst' = [Release(vinst, i) EXCEPT ![i].ext = FALSE]
  /\ UNCHANGED <<rvars, web, view, vctl, ui>>

\* Faulty variant of ViewRegisterForDraggedTypes: the handle is unwrapped.
ViewRegisterUnwraps ==
  /\ ui.pc = "idle"
  /\ view.borrow >= 0
  /\ vinst' = IF view.controller = NoInstance THEN vinst
              ELSE [vinst EXCEPT ![view.controller].dragged = TRUE]
  /\ ui' = IF view.controller = NoInstance
           THEN [UiIdle EXCEPT !.pc = "panic_none", !.op = "register"]
           ELSE [UiIdle EXCEPT !.op = "register", !.native = TRUE]
  /\ UNCHANGED <<rvars, web, view, vctl>>

\* View::register_for_dragged_types: forwarded to the native view if there
\* is a native object, nothing otherwise.
ViewRegisterForDraggedTypes ==
  /\ ui.pc = "idle"
  /\ view.borrow >= 0
  /\ vinst' = IF view.controller = NoInstance THEN vinst
              ELSE [vinst EXCEPT ![view.controller].dragged = TRUE]
  /\ ui' = [UiIdle EXCEPT !.op = "register", !.native = (view.controller # NoInstance)]
  /\ UNCHANGED <<rvars, web, view, vctl>>

\* The caller's controller, lent to configure as &T, goes out of scope.
DropController(c) ==
  /\ ui.pc = "idle"
  /\ vctl[c].alive
  /\ vctl' = [vctl EXCEPT ![c].alive = FALSE]
  /\ UNCHANGED <<rvars, web, view, vinst, ui>>

ViewNext ==
  \/ \E c \in ViewControllers :
       \/ ViewConfigure(c) \/ ViewDidLoad(c) \/ ViewConfigureReturn(c)
       \/ DropController(c)
  \/ ViewGetHandle
  \/ \E i \in 1..MaxConfigs : ViewReleaseHandle(i)
  \/ ViewRegisterForDraggedTypes

\* The bridges' runs leave the registry as the process found it.
InitBridge ==
  /\ Init
  /\ runtime = PreClassSeq
  /\ bundle = NilBundle

SpecWeb == InitBridge /\ [][WebNext]_vars

SpecView == InitBridge /\ [][ViewNext]_vars

\* The binds of both bridges, and the drop of a WebView.
BindNext ==
  \/ \E b \in Binds :
       WebNewBind(b) \/ WebDidLoad(b) \/ WebNewReturn(b) \/ WebDrop(b)
  \/ \E c \in ViewControllers :
       ViewConfigure(c) \/ ViewDidLoad(c) \/ ViewConfigureReturn(c)

SpecBind == InitBridge /\ [][BindNext]_vars

\* ------------------------------------------------------------------ claims
\* No thread asks for the write guard while it holds the read guard.
NoUpgrade ==
  \A t \in Threads : th[t].pc \in {"load_write", "store_write"} => t \notin readers

\* Some step can be taken unless every thread is outside a call.
NoDeadlock ==
  (\E t \in Threads : th[t].pc # "idle") => ENABLED NextRW

\* C6: in every interleaving of threads calling ClassMap::load and
\* ClassMap::store no thread requests the write lock while it holds the read
\* lock, no deadlock state is reachable, and with a fair lock every call
\* returns.
C6_NoUpgradeNoDeadlockReturns ==
  /\ [](NoUpgrade /\ NoDeadlock)
  /\ \A t \in Threads : (th[t].pc # "idle") ~> (th[t].pc = "idle")

\* C6 witness: a thread of load waits for the write lock, having released
\* its read guard, while another thread holds the read lock.
C6_Witness ==
  \E t, u \in Threads :
    /\ t # u
    /\ th[t].pc = "load_write" /\ th[t].op = "load"
    /\ u \in readers
    /\ ~ CanWrite

\* The handle load returns for a key, given the map and the runtime it
\* started from: the key's own entry, else the runtime's class of that name.
OwnResult(m, rt, class_name, superclass_name) ==
  IF ClassKey(class_name, superclass_name) \in DOMAIN m
  THEN SomeClass(m[ClassKey(class_name, superclass_name)].ptr)
  ELSE IF objc_getClass(rt, class_name) = NULL THEN NoneClass
       ELSE SomeClass(objc_getClass(rt, class_name))

\* The keys a call has looked up or written so far.
Targets(t) ==
  IF th[t].op = "lor"
  THEN {ClassKey(th[t].subclass_name, th[t].superclass_name)}
       \cup (IF th[t].phase \in {"super", "store"}
             THEN {ClassKey(th[t].superclass_name, NoSuper)} ELSE {})
  ELSE {Key(t)}

\* C1: two calls of load_or_register_class in sequence with the same
\* arguments return the same handle, the second call never invokes the
\* declaration callback, and the callback runs at most once over both.
C1_TwiceSameHandleOneCallback ==
  \A t \in Threads :
    ( /\ th[t].pc = "lor_ret"
      /\ last.op = "lor"
      /\ last.name = th[t].subclass_name
      /\ last.sup = th[t].superclass_name )
    => /\ th[t].lres = last.res.ptr
       /\ th[t].cb = 0
       /\ last.cb + th[t].cb <= 1

\* C1 witness: the second call returns after a first call that registered
\* the class and ran the callback once.
C1_Witness ==
  \E t \in Threads :
    /\ th[t].pc = "lor_ret"
    /\ last.op = "lor"
    /\ last.name = th[t].subclass_name
    /\ last.sup = th[t].superclass_name
    /\ last.cb = 1
    /\ th[t].hit

C7_ReadersShareNoTornEntry ==
  /\ writer # NoThread => readers = {}
  /\ \A t \in Threads :
       /\ ( /\ th[t].pc = "load_read"
            /\ writer = NoThread
            /\ \A u \in Threads : th[u].pc \notin {"load_write", "store_write"} )
          => ENABLED LoadRead(t)
       /\ t \in readers => \A k \in DOMAIN cache : cache[k] # PartialEntry
       /\ (th[t].pc = "load_ret" /\ th[t].hit)
          => /\ th[t].res.some
             /\ <<Key(t), th[t].res.ptr>> \in inserted

\* C7 witness: two threads hold the read guard at once on a key that is
\* cached.
C7_Witness ==
  \E t, u \in Threads :
    /\ t # u
    /\ {t, u} \subseteq readers
    /\ Key(t) \in DOMAIN cache
    /\ Key(u) \in DOMAIN cache

\* C8: a load that misses the cache and finds the class in the runtime
\* returns the runtime's handle with the entry (name, superclass_name as
\* supplied) in place, and later loads of the key return that handle from
\* the cache until a store replaces the entry.
C8_LoadAdoptsRuntimeClass ==
  /\ \A t \in Threads :
       /\ ( /\ th[t].pc = "load_ret"
            /\ Key(t) \notin DOMAIN th[t].snap
            /\ objc_getClass(runtime, th[t].name) # NULL )
          => /\ th[t].res = SomeClass(objc_getClass(runtime, th[t].name))
             /\ Key(t) \in DOMAIN cache
             /\ cache[Key(t)] = ClassEntry(th[t].sup, objc_getClass(runtime, th[t].name))
       /\ (th[t].pc = "load_ret" /\ adopted[Key(t)] # NULL)
          => th[t].res = SomeClass(adopted[Key(t)])
  /\ \A k \in Keys :
       adopted[k] # NULL => k \in DOMAIN cache /\ cache[k] = ClassEntry(k[2], adopted[k])

\* C8 witness: a later load hits the entry an earlier load took from the
\* runtime.
C8_Witness ==
  \E t \in Threads :
    /\ th[t].pc = "load_ret"
    /\ th[t].hit
    /\ adopted[Key(t)] # NULL
    /\ th[t].sup # NoSuper

\* C9: load returns absent exactly when neither the cache has the key nor
\* the runtime the name, and then leaves the cache as it was.
C9_AbsentIffUnknown ==
  \A t \in Threads :
    th[t].pc = "load_ret" =>
      /\ (~ th[t].res.some) <=>
           ( /\ Key(t) \notin DOMAIN th[t].snap
             /\ objc_getClass(runtime, th[t].name) = NULL )
      /\ (~ th[t].res.some) => cache = th[t].snap

\* C9 witness: a top-level load returns absent.
C9_Witness ==
  \E t \in Threads :
    /\ th[t].pc = "load_ret"
    /\ th[t].op = "load"
    /\ ~ th[t].res.some
    /\ objc_getClass(runtime, th[t].name) = NULL

\* C10: store leaves the entry (name, superclass_name) -> handle in place
\* whatever was there, changes no other key, and the next load of the key
\* returns the handle whatever the runtime holds.
C10_StoreOverwrites ==
  \A t \in Threads :
    /\ (th[t].pc = "store_ret" /\ th[t].op = "store")
       => /\ Key(t) \in DOMAIN cache
          /\ cache[Key(t)] = ClassEntry(th[t].sup, th[t].class)
          /\ \A k \in Keys \ {Key(t)} : EntryAt(cache, k) = EntryAt(th[t].snap, k)
    /\ ( /\ th[t].pc = "load_ret"
         /\ last.op = "store"
         /\ Key(t) = ClassKey(last.name, last.sup) )
       => th[t].res = SomeClass(last.h) /\ th[t].hit

\* C10 witness: a store has replaced an entry that held another handle.
C10_Witness ==
  \E t \in Threads :
    /\ th[t].pc = "store_ret"
    /\ th[t].op = "store"
    /\ Key(t) \in DOMAIN th[t].snap
    /\ th[t].snap[Key(t)].ptr # th[t].class
    /\ objc_getClass(runtime, th[t].name) \notin {NULL, th[t].class}

\* The bind's only wrapper has been dropped.
DroppedUncloned(b) == web[b].st = "returned" /\ web[b].made = 1 /\ web[b].live = 0

\* C2: after N binds, each followed by the drop of its wrapper, every
\* bind's Rc::into_raw is matched by one Rc::from_raw and the strong count is
\* back at its value before the bind.
C2_BindsBalanced ==
  \A b \in Binds :
    DroppedUncloned(b)
    => /\ web[b].raw = 1
       /\ web[b].reclaim = 1
       /\ web[b].post = web[b].pre
       /\ web[b].rc = 0
       /\ web[b].freed
       /\ ~ web[b].ub

\* C2 witness: MaxBinds binds have been made and their wrappers dropped.
C2_Witness == \A b \in Binds : DroppedUncloned(b)

\* C3: the raw pointer of a bind is reclaimed exactly once: never twice,
\* and once when all wrappers of the bind are gone.
C3_ReclaimedExactlyOnce ==
  \A b \in Binds :
    /\ web[b].reclaim <= 1
    /\ (web[b].st = "returned" /\ web[b].live = 0) => web[b].reclaim = 1

\* C4: every live native instance whose ivar holds a controller pointer is
\* backed by exactly one outstanding extra strong reference, and the
\* controller it points to is alive.
C4_AssociationBackedByStrongRef ==
  /\ \A b \in Binds :
       (web[b].retain > 0 /\ web[b].ivar)
       => /\ web[b].raw - web[b].reclaim = 1
          /\ ~ web[b].freed
          /\ web[b].rc > 0
  /\ \A i \in 1..Len(vinst) :
       vinst[i].retain > 0
       => /\ vinst[i].strong = 1
          /\ vctl[vinst[i].vc_ivar].alive

\* Neither the key (subclass_name, Some(superclass_name)) nor the superclass
\* can be found by thread t's call of load_or_register_class, in the cache
\* and the runtime the call started from.
Unresolvable(t) ==
  /\ ClassKey(th[t].subclass_name, th[t].superclass_name) \notin DOMAIN th[t].snap
  /\ objc_getClass(th[t].rsnap, th[t].subclass_name) = NULL
  /\ ClassKey(th[t].superclass_name, NoSuper) \notin DOMAIN th[t].snap
  /\ objc_getClass(th[t].rsnap, th[t].superclass_name) = NULL

\* C11: a call of load_or_register_class that finds neither the subclass
\* key nor the superclass ends in the panic that names the superclass, with
\* the callback not run, no declaration requested or registered and the
\* cache as it was at the call; such a call never gets as far as the
\* declaration or the return.
C11_MissingSuperclassPanics ==
  \A t \in Threads :
    /\ th[t].pc = "panic_superclass"
       => /\ Unresolvable(t)
          /\ th[t].panic.kind = "superclass"
          /\ th[t].panic.args[2] = th[t].superclass_name
          /\ th[t].cb = 0
          /\ th[t].asked = 0
          /\ th[t].reg = 0
          /\ th[t].decl = NoDecl
          /\ runtime = th[t].rsnap
          /\ cache = th[t].snap
    /\ (th[t].op = "lor" /\ Unresolvable(t))
       => th[t].pc \in {"load_read", "load_get", "load_objc", "load_ret", "panic_superclass"}

\* C11 witness: a call has ended in the missing-superclass panic.
C11_Witness ==
  \E t \in Threads :
    /\ th[t].pc = "panic_superclass"
    /\ th[t].superclass_name # th[t].subclass_name

\* C12: when ClassDecl::new refuses the synthesized name the call ends in
\* the panic that names subclass and superclass, with the callback not run,
\* nothing registered and no entry under (subclass_name,
\* Some(superclass_name)); a declaration is only handed out for a name the
\* runtime does not hold.
C12_RefusedDeclarationPanics ==
  \A t \in Threads :
    /\ th[t].pc = "panic_subclass"
       => /\ th[t].panic.kind = "subclass"
          /\ th[t].panic.args = <<th[t].subclass_name, th[t].superclass_name>>
          /\ th[t].asked = 1
          /\ th[t].cb = 0
          /\ th[t].reg = 0
          /\ th[t].decl = NoDecl
          /\ runtime = th[t].rsnap
          /\ ClassKey(th[t].subclass_name, th[t].superclass_name) \notin DOMAIN cache
    /\ th[t].pc \in {"lor_config", "lor_register"}
       => objc_getClass(runtime, th[t].decl.name) = NULL

\* C12 witness: a call has ended in the panic because the synthesized name
\* was taken in the runtime.
C12_Witness ==
  \E t \in Threads :
    /\ th[t].pc = "panic_subclass"
    /\ th[t].panic.cause = "taken"

\* C13: every bind runs the controller's did_load exactly once: not before
\* the native instance is allocated and its ivar set, and not later than the
\* return of the wrapper.
C13_DidLoadOncePerBind ==
  /\ \A b \in Binds :
       /\ web[b].did_load <= 1
       /\ web[b].st \in {"none", "bound"} => web[b].did_load = 0
       /\ web[b].st = "bound" => (web[b].retain > 0 /\ web[b].ivar)
       /\ web[b].st \in {"loaded", "returned"}
          => (web[b].did_load = 1 /\ web[b].hook_ivar)
       /\ web[b].made > 0 => web[b].st = "returned"
  /\ \A i \in 1..Len(vinst) :
       /\ vinst[i].did_load <= 1
       /\ vinst[i].did_load = 0 => (ui.pc = "view_did_load" /\ i = Len(vinst))
  /\ ui.pc = "view_did_load"
     => /\ view.controller = Len(vinst)
        /\ vinst[Len(vinst)].did_load = 0
        /\ vinst[Len(vinst)].vc_ivar = ui.c
  /\ ui.pc = "view_return" => vinst[Len(vinst)].did_load = 1

\* C13 witness: a WebView has been returned and View::configure has
\* returned twice on one View, each bind with one call of the hook.
C13_Witness ==
  /\ ui.pc = "idle"
  /\ \E b \in Binds : web[b].st = "returned" /\ web[b].did_load = 1
  /\ Len(vinst) >= 2
  /\ \A i \in 1..Len(vinst) : vinst[i].did_load = 1

\* The identifier "com.example.App".
ComExampleApp ==
  [nil |-> FALSE,
   id |-> <<"c", "o", "m", ".", "e", "x", "a", "m", "p", "l", "e", ".", "A", "p", "p">>]

\* C14: the name of a declaration is subclass_name, superclass_name and the
\* bundle identifier with every "." and "-" replaced by "_", joined by "_",
\* or subclass_name and superclass_name joined by "_" when the identifier is
\* nil; with an identifier the name differs from the name without one and
\* its identifier part holds neither "." nor "-".
C14_SynthesizedName ==
  /\ get_bundle_id(ComExampleApp).id = "com_example_App"
  /\ \A t \in Threads :
       th[t].decl # NoDecl =>
         LET exp == [i \in 1..Len(bundle.id) |->
                       IF bundle.id[i] \in {".", "-"} THEN "_" ELSE bundle.id[i]]
             without == th[t].subclass_name \o "_" \o th[t].superclass_name
         IN  IF bundle.nil
             THEN th[t].decl.name = without
             ELSE /\ th[t].decl.name = without \o "_" \o ToStr(exp)
                  /\ th[t].decl.name # without
                  /\ th[t].decl.name
                       # objc_subclass_name(th[t].subclass_name, th[t].superclass_name, NilBundle)
                  /\ \A i \in 1..Len(exp) : exp[i] \notin {".", "-"}

\* C14 witness: a declaration was made under an identifier that holds both
\* a "." and a "-".
C14_Witness ==
  \E t \in Threads :
    /\ th[t].pc = "lor_config"
    /\ ~ bundle.nil
    /\ \E i, j \in 1..Len(bundle.id) : bundle.id[i] = "." /\ bundle.id[j] = "-"

\* C15: on a View that was never configured register_for_dragged_types
\* sends no message, raises no error and leaves the wrapper as it was, and
\* get_handle returns None; after a configure get_handle returns the handle
\* of the instance the most recent configure created.
C15_UnconfiguredNoOp ==
  /\ (ui.op = "register" /\ Len(vinst) = 0)
     => /\ ui.pc = "idle"
        /\ ~ ui.native
        /\ view = [controller |-> NoInstance, borrow |-> 0]
  /\ ui.op = "get_handle"
     => ui.seen = (IF Len(vinst) = 0 THEN NoInstance ELSE Len(vinst))
  /\ ui.op = "register" => ui.native = (Len(vinst) > 0)

\* C15 witness: register_for_dragged_types has returned on a View that was
\* never configured.
C15_Witness ==
  /\ ui.op = "register"
  /\ ui.pc = "idle"
  /\ Len(vinst) = 0
  /\ view.controller = NoInstance

\* C20: no mutable borrow of the View's inner state is alive while did_load
\* runs, so a hook that calls get_handle or register_for_dragged_types on
\* the same View never panics on the RefCell, and what it sees is the
\* instance configure has just installed.
C20_BorrowReleasedBeforeDidLoad ==
  /\ ui.pc # "panic_borrow"
  /\ ui.pc = "view_did_load" => view.borrow = 0
  /\ (ui.pc = "view_return" /\ ui.op = "get_handle")
     => /\ ui.seen = Len(vinst)
        /\ ui.seen = view.controller
        /\ vinst[ui.seen].vc_ivar = ui.c
  /\ (ui.pc = "view_return" /\ ui.op = "register")
     => (ui.native /\ vinst[Len(vinst)].dragged)

\* C20 witness: did_load of the second configure has called get_handle and
\* got the second instance.
C20_Witness ==
  /\ ui.pc = "view_return"
  /\ ui.op = "get_handle"
  /\ Len(vinst) = 2
  /\ ui.seen = 2

\* C17: the ivar of every view-controller instance ViewInner::configure
\* allocated and the ivar of its view hold the same value, the address of
\* the controller that configure was given, and the wrapper's handle is the
\* instance of the latest configure.
C17_BothIvarsSameController ==
  /\ \A i \in 1..Len(vinst) :
       /\ vinst[i].vc_ivar = vinst[i].view_ivar
       /\ vinst[i].vc_ivar \in ViewControllers
  /\ ui.pc = "view_did_load"
     => /\ view.controller = Len(vinst)
        /\ vinst[view.controller].vc_ivar = ui.c
        /\ vinst[view.controller].view_ivar = ui.c
  /\ (Len(vinst) > 0) = (view.controller # NoInstance)
  /\ Len(vinst) > 0 => view.controller = Len(vinst)

\* C17 witness: a View configured with one controller has just been
\* configured with another.
C17_Witness ==
  /\ ui.pc = "view_did_load"
  /\ Len(vinst) = 2
  /\ vinst[1].vc_ivar # vinst[2].vc_ivar
  /\ view.controller = 2

\* The handles of the classes the runtime holds.
RuntimePtrs == {runtime[i].ptr : i \in 1..Len(runtime)}

\* Class p is a direct subclass of the runtime's class of the given name.
IsSubclassOf(p, superclass_name) ==
  /\ objc_getClass(runtime, superclass_name) # NULL
  /\ \E i \in 1..Len(runtime) :
       /\ runtime[i].ptr = p
       /\ runtime[i].super = objc_getClass(runtime, superclass_name)

\* C16: every handle load_or_register_class returns, for a subclass name
\* other than the superclass name, is a class declared from the handle of
\* the class named superclass_name.
C16_ReturnsSubclassOfSuper ==
  \A t \in Threads :
    (th[t].pc = "lor_ret" /\ th[t].subclass_name # th[t].superclass_name)
    => IsSubclassOf(th[t].lres, th[t].superclass_name)

\* C18: without direct stores every complete entry of the cache holds the
\* handle of a class the runtime holds; the callback has run when the
\* declaration is registered, and the declaration is registered when its
\* handle is stored.
C18_CacheHoldsRegisteredClasses ==
  /\ \A k \in DOMAIN cache :
       cache[k] # PartialEntry => cache[k].ptr \in RuntimePtrs
  /\ \A t \in Threads :
       /\ th[t].pc = "lor_register"
          => /\ th[t].cb = 1
             /\ th[t].reg = 0
             /\ th[t].decl.ptr \notin RuntimePtrs
             /\ \A k \in DOMAIN cache : cache[k].ptr # th[t].decl.ptr
       /\ (th[t].op = "lor" /\ th[t].phase = "store")
          => /\ th[t].cb = 1
             /\ th[t].reg = 1
             /\ th[t].class = th[t].decl.ptr
             /\ th[t].decl.ptr \in RuntimePtrs

\* C18 witness: a call has registered a class and returned with its handle
\* in the cache under (subclass_name, Some(superclass_name)).
C18_Witness ==
  \E t \in Threads :
    /\ th[t].pc = "lor_ret"
    /\ th[t].reg = 1
    /\ ClassKey(th[t].subclass_name, th[t].superclass_name) \in DOMAIN cache
    /\ cache[ClassKey(th[t].subclass_name, th[t].superclass_name)].ptr = th[t].lres
    /\ th[t].lres \in RuntimePtrs

\* C19: when threads race through load_or_register_class with the same
\* arguments and a resolvable superclass, no call panics because the
\* synthesized name is taken, calls that have returned hold the same handle,
\* the callback has run at most once in total, and the runtime holds at most
\* one class of any name.
C19_ConcurrentRegistrationAgrees ==
  /\ \A t \in Threads : th[t].panic.cause # "taken"
  /\ \A t, u \in Threads :
       (t # u /\ th[t].op = "lor" /\ th[u].op = "lor")
       => /\ th[t].cb + th[u].cb <= 1
          /\ (th[t].pc = "lor_ret" /\ th[u].pc = "lor_ret") => th[t].lres = th[u].lres
  /\ \A i, j \in 1..Len(runtime) : runtime[i].name = runtime[j].name => i = j
====
